---------------------------- MODULE Spec2Model ----------------------------
(***************************************************************************)
(* A model of mandelbrot/src/main.rs: escape_time, parse_pair,             *)
(* parse_complex and pixel_to_point.                                       *)
(*                                                                         *)
(* Numbers.  The program computes in f64, IEEE-754 binary floating point   *)
(* with round-to-nearest, ties-to-even.  The model keeps that arithmetic   *)
(* (rounding of every operation, gradual underflow, overflow to infinity,  *)
(* NaN) in a binary format of the same shape whose three sizes are         *)
(* definitions: Prec significand bits (f64: 53), Frac fraction bits of the *)
(* smallest subnormal 2^-Frac (f64: 1074) and KMax + 1 binades (f64:       *)
(* 2046).  A finite value is held as an integer count v of units 2^-Frac;  *)
(* it is representable iff |v| = m * 2^k with m < 2^Prec and k <= KMax.    *)
(* The sign of a zero is not kept: no operation of the program divides by  *)
(* a computed zero or inspects a sign bit, and IEEE comparison does not    *)
(* distinguish the two zeros.                                              *)
(*                                                                         *)
(* Text.  A &str is its sequence of UTF-8 bytes; a char is its code point. *)
(* str::find, the range slices and their char-boundary panics work on      *)
(* byte offsets, as in the standard library.                               *)
(***************************************************************************)
EXTENDS Integers, Sequences, FiniteSets

VARIABLES
    fn,           \* the function being called
    pc,           \* position of the call: "call", "loop", "done", "panic"
    result,       \* the value returned ([tag |-> "Pending"] before the return)
    c, limit,     \* escape_time: arguments
    z, i,         \* escape_time: locals
    updates,      \* escape_time: number of times line 25 has run
    s, separator, \* parse_pair / parse_complex: arguments
    T,            \* parse_pair: the type parameter, "i32" or "f64"
    bounds, pixel, upper_left, lower_right  \* pixel_to_point: arguments

vars == <<fn, pc, result, c, limit, z, i, updates, s, separator, T,
          bounds, pixel, upper_left, lower_right>>

---------------------------------------------------------------------------
(* Bounds of the model.                                                    *)

Prec == 4
Frac == 4
KMax == 7
\* escape_time is called with limit in 0..MaxLimit
MaxLimit == 5
\* texts of up to MaxLen characters are enumerated
MaxLen == 4
\* image bounds and pixel coordinates range over 0..MaxBound
MaxBound == 3

---------------------------------------------------------------------------
(* f64: values and rounded arithmetic.                                     *)

RECURSIVE Pow2(_)
Pow2(n) ==
    IF n = 0 THEN 1 ELSE 2 * Pow2(n - 1)

RECURSIVE Pow10(_)
Pow10(n) ==
    IF n = 0 THEN 1 ELSE 10 * Pow10(n - 1)

Abs(n) ==
    IF n < 0 THEN -n ELSE n

\* the number of units in 1.0
U ==
    Pow2(Frac)

\* the largest finite value, in units
MaxFin ==
    (Pow2(Prec) - 1) * Pow2(KMax)

Fin(v) ==
    [k |-> "fin", v |-> v]

Inf(sign) ==
    [k |-> "inf", v |-> sign]

NaN ==
    [k |-> "nan", v |-> 0]

IsFinite(x) ==
    x.k = "fin"

Sign(x) ==
    IF x.v < 0 THEN -1 ELSE IF x.v > 0 THEN 1 ELSE 0

\* the binade of a magnitude of q units: the least k with q < 2^(Prec + k)
RECURSIVE Binade(_, _)
Binade(q, k) ==
    IF q < Pow2(Prec + k) \/ k > KMax THEN k ELSE Binade(q, k + 1)

\* num / den units (den > 0), whose magnitude lies in binade k, rounded to
\* the nearest representable value, ties to the even significand; a
\* magnitude that rounds past MaxFin is infinite.
NearestIn(num, den, k) ==
    LET sg   == IF num < 0 THEN -1 ELSE 1
        a    == Abs(num)
        step == Pow2(k)
        lo   == (a \div (den * step)) * step
        rem  == a - lo * den
        up   == \/ 2 * rem > den * step
                \/ 2 * rem = den * step /\ (lo \div step) % 2 = 1
        r    == IF up THEN lo + step ELSE lo
    IN  IF k > KMax \/ r > MaxFin THEN Inf(sg) ELSE Fin(sg * r)

Nearest(num, den) ==
    CHOOSE r \in {NearestIn(num, den, k) :
                     k \in {Binade(Abs(num) \div den, 0)}} : TRUE

\* Nearest of operands that are evaluated once.  (Here and in the four
\* operations below the operands are bound to their values before use, as
\* in a call by value.)
Round(num, den) ==
    CHOOSE r \in {Nearest(n, d) : n \in {num}, d \in {den}} : TRUE

\* `n as f64` for an unsigned integer n
FromUsize(n) ==
    Round(n * U, 1)

FNeg(x) ==
    IF x.k = "nan" THEN NaN ELSE [k |-> x.k, v |-> -x.v]

Sum(x, y) ==
    CASE x.k = "nan" \/ y.k = "nan" -> NaN
      [] x.k = "inf" /\ y.k = "inf" -> IF x.v = y.v THEN x ELSE NaN
      [] x.k = "inf" -> x
      [] y.k = "inf" -> y
      [] OTHER -> Round(x.v + y.v, 1)

FAdd(x, y) ==
    CHOOSE r \in {Sum(a, b) : a \in {x}, b \in {y}} : TRUE

FSub(x, y) ==
    FAdd(x, FNeg(y))

Product(x, y) ==
    CASE x.k = "nan" \/ y.k = "nan" -> NaN
      [] x.k = "inf" \/ y.k = "inf" ->
            IF Sign(x) * Sign(y) = 0 THEN NaN ELSE Inf(Sign(x) * Sign(y))
      [] OTHER -> Round(x.v * y.v, U)

FMul(x, y) ==
    CHOOSE r \in {Product(a, b) : a \in {x}, b \in {y}} : TRUE

Quotient(x, y) ==
    CASE x.k = "nan" \/ y.k = "nan" -> NaN
      [] x.k = "inf" /\ y.k = "inf" -> NaN
      [] x.k = "inf" -> Inf(x.v * (IF Sign(y) < 0 THEN -1 ELSE 1))
      [] y.k = "inf" -> Fin(0)
      [] y.v = 0 -> IF x.v = 0 THEN NaN ELSE Inf(Sign(x))
      [] OTHER -> Round(Sign(y) * x.v * U, Abs(y.v))

FDiv(x, y) ==
    CHOOSE r \in {Quotient(a, b) : a \in {x}, b \in {y}} : TRUE

\* x < y as f64 compares: false when either is NaN
Less(x, y) ==
    CASE x.k = "nan" \/ y.k = "nan" -> FALSE
      [] x.k = "inf" /\ y.k = "inf" -> x.v < y.v
      [] x.k = "inf" -> x.v < 0
      [] y.k = "inf" -> y.v > 0
      [] OTHER -> x.v < y.v

FLt(x, y) ==
    \E a \in {x}, b \in {y} : Less(a, b)

FGt(x, y) ==
    FLt(y, x)

\* x == y as f64 compares: NaN equals nothing
FEq(x, y) ==
    x.k # "nan" /\ y.k # "nan" /\ x = y

FLe(x, y) ==
    FLt(x, y) \/ FEq(x, y)

---------------------------------------------------------------------------
(* num::Complex<f64>.                                                      *)

Complex(re, im) ==
    [re |-> re, im |-> im]

\* Complex::norm_sqr: re * re + im * im
norm_sqr(w) ==
    FAdd(FMul(w.re, w.re), FMul(w.im, w.im))

\* Complex * Complex: (a.re b.re - a.im b.im) + (a.re b.im + a.im b.re) i
CMul(a, b) ==
    Complex(FSub(FMul(a.re, b.re), FMul(a.im, b.im)),
            FAdd(FMul(a.re, b.im), FMul(a.im, b.re)))

CAdd(a, b) ==
    Complex(FAdd(a.re, b.re), FAdd(a.im, b.im))

---------------------------------------------------------------------------
(* Values returned.                                                        *)

Pending ==
    [tag |-> "Pending"]

None ==
    [tag |-> "None"]

Some(v) ==
    [tag |-> "Some", val |-> v]

\* a call that aborted: a panic unwinds through every caller
Panic ==
    [tag |-> "Panic"]

Zero ==
    Complex(Fin(0), Fin(0))

\* the variables of the functions that are not being called
EscapeIdle ==
    /\ c = Zero /\ limit = 0 /\ z = Zero /\ i = 0 /\ updates = 0

ParseIdle ==
    /\ s = << >> /\ separator = 0 /\ T = "-"

PixelIdle ==
    /\ bounds = <<0, 0>> /\ pixel = <<0, 0>>
    /\ upper_left = Zero /\ lower_right = Zero

---------------------------------------------------------------------------
(* escape_time (lines 12-28).                                              *)

\* the literal 4.0 of line 21
Four ==
    Fin(4 * U)

\* the values c.re and c.im are drawn from: the multiples of 1/2 up to
\* CGrid / 2 in magnitude, the smallest subnormals, the largest finite
\* values, an infinity and NaN
CGrid == 6

EscapeValues ==
    {Fin(n * (U \div 2)) : n \in -CGrid..CGrid}
        \cup {Fin(1), Fin(-1), Fin(MaxFin), Fin(-MaxFin), Inf(1), NaN}

\* line 19: for i in 0..limit
LoopCondInclusive ==
    i <= limit

LoopCond ==
    i < limit

\* line 21: z.norm_sqr() > 4.0
EscapedAtRadius(w) ==
    FGt(norm_sqr(w), Four) \/ FEq(norm_sqr(w), Four)

Escaped(w) ==
    FGt(norm_sqr(w), Four)

\* line 25: z * z + c
StepDropsC(w, cc) ==
    CMul(w, w)

Step(w, cc) ==
    CAdd(CMul(w, w), cc)

\* line 18, with the arguments of the call
InitEscape ==
    /\ fn = "escape_time"
    /\ pc = "loop"
    /\ result = Pending
    /\ c \in {Complex(re, im) : re \in EscapeValues, im \in EscapeValues}
    /\ limit \in 0..MaxLimit
    /\ z = Zero
    /\ i = 0
    /\ updates = 0
    /\ ParseIdle
    /\ PixelIdle

\* lines 21-24: the test succeeds and the call returns Some(i)
EscapeReturn ==
    /\ pc = "loop"
    /\ LoopCond
    /\ Escaped(z)
    /\ result' = Some(i)
    /\ pc' = "done"
    /\ UNCHANGED <<fn, c, limit, z, i, updates, s, separator, T,
                   bounds, pixel, upper_left, lower_right>>

\* lines 21 and 25: the test fails, z is updated and the loop goes on
Iterate ==
    /\ pc = "loop"
    /\ LoopCond
    /\ ~Escaped(z)
    /\ z' = Step(z, c)
    /\ i' = i + 1
    /\ updates' = updates + 1
    /\ UNCHANGED <<fn, pc, result, c, limit, s, separator, T,
                   bounds, pixel, upper_left, lower_right>>

\* line 27: the range 0..limit is exhausted and the call returns None
Exhaust ==
    /\ pc = "loop"
    /\ ~LoopCond
    /\ result' = None
    /\ pc' = "done"
    /\ UNCHANGED <<fn, c, limit, z, i, updates, s, separator, T,
                   bounds, pixel, upper_left, lower_right>>

NextEscape ==
    EscapeReturn \/ Iterate \/ Exhaust

SpecEscape ==
    InitEscape /\ [][NextEscape]_vars

\* the loop is sequential code: a step that can be taken is taken
FairSpecEscape ==
    SpecEscape /\ WF_vars(NextEscape)

---------------------------------------------------------------------------
(* escape_time: the claims.                                                *)

\* the sequence z_0 = 0, z_(k+1) = z_k * z_k + c
RECURSIVE ZRef(_, _)
ZRef(cc, k) ==
    IF k = 0
    THEN Zero
    ELSE LET w == ZRef(cc, k - 1) IN CAdd(CMul(w, w), cc)

\* |z_k|^2 > 4, strictly
EscapesAt(cc, k) ==
    FGt(norm_sqr(ZRef(cc, k)), Four)

\* Some(the least index below lim that escapes), None when there is none
EscapeRef(cc, lim) ==
    LET E == {k \in 0..(lim - 1) : EscapesAt(cc, k)}
    IN  IF E = {} THEN None ELSE Some(CHOOSE k \in E : \A j \in E : k <= j)

\* |w| > 2 in the reals (w without NaN)
MagGt2(w) ==
    /\ w.re.k # "nan" /\ w.im.k # "nan"
    /\ \/ w.re.k = "inf"
       \/ w.im.k = "inf"
       \/ w.re.v * w.re.v + w.im.v * w.im.v > 4 * U * U

Three ==
    Complex(Fin(3 * U), Fin(0))

\* C5: escape_time(c, limit) is Some(i) for the least i < limit with
\* |z_i|^2 > 4 (strictly), and None exactly when no index below limit
\* passes the test; while the loop runs, z is z_i, no earlier index has
\* passed the test, and the test of index i is made on z_i, before the
\* update that produces z_(i+1).
C5_EscapeTimeIsLeastEscapingIndex ==
    fn = "escape_time" =>
        /\ pc = "loop" =>
              /\ result = Pending
              /\ i <= limit
              /\ z = ZRef(c, i)
              /\ \A j \in 0..(i - 1) : ~EscapesAt(c, j)
        /\ pc = "done" =>
              /\ result = EscapeRef(c, limit)
              /\ result.tag \in {"Some", "None"}
              /\ result.tag = "Some" =>
                    /\ result.val = i /\ 0 <= i /\ i < limit
                    /\ z = ZRef(c, i) /\ EscapesAt(c, i)
              /\ result.tag = "None" =>
                    \A j \in 0..(limit - 1) : ~EscapesAt(c, j)

\* a call that escaped after at least two updates
C5_Witness ==
    /\ fn = "escape_time" /\ pc = "done"
    /\ result.tag = "Some" /\ result.val >= 2

\* C6 as stated: for c = 3 + 0i and a limit that lets the escape be
\* reported, escape_time returns Some(0); every c with |c| > 2 yields
\* Some(i), i < limit, at the largest limit.
C6_Original ==
    fn = "escape_time" /\ pc = "done" =>
        /\ c = Three /\ limit >= 1 => result = Some(0)
        /\ MagGt2(c) /\ limit = MaxLimit =>
              result.tag = "Some" /\ result.val < limit

\* C6 as amended: for c = 3 + 0i escape_time returns Some(1) for every
\* limit >= 2 and None for limit <= 1 (z_0 = 0 is tested first, so index 0
\* never escapes); every c with |c| > 2 has an escape index e >= 1 and
\* escape_time(c, limit) = Some(e) for every limit > e.
C6_EscapeOfThreeIsAtIterationOne ==
    fn = "escape_time" /\ pc = "done" =>
        /\ c = Three => result = IF limit >= 2 THEN Some(1) ELSE None
        /\ MagGt2(c) =>
              LET e == EscapeRef(c, MaxLimit)
              IN  /\ e.tag = "Some"
                  /\ e.val >= 1
                  /\ limit > e.val => result = e /\ result.val < limit

\* the call escape_time(3 + 0i, limit) has returned Some(1)
C6_Witness ==
    /\ fn = "escape_time" /\ pc = "done"
    /\ c = Three /\ result = Some(1)

\* C8: line 25 runs at most limit times, the call returns, and with
\* limit = 0 line 25 never runs and the result is None.
C8_AtMostLimitUpdatesAndTermination ==
    /\ [](fn = "escape_time" =>
            /\ updates <= limit
            /\ updates = i
            /\ limit = 0 => updates = 0 /\ result \in {Pending, None})
    /\ <>(pc = "done" /\ result.tag \in {"Some", "None"})

\* a call whose loop ran all of its limit > 0 iterations before returning
C8_Witness ==
    /\ fn = "escape_time" /\ pc = "done"
    /\ limit > 0 /\ updates = limit

---------------------------------------------------------------------------
(* pixel_to_point (lines 103-119).                                         *)

\* the spacing of the values just above 1.0, in units
UlpOfOne ==
    Pow2(Frac - Prec + 1)

\* the values the corners are drawn from
CornerRe ==
    {Fin(-MaxFin), Fin(-U), Fin(U), Fin(U + UlpOfOne), Fin(MaxFin), NaN}

CornerIm ==
    {Fin(-U), Fin(U), Fin(U + UlpOfOne)}

\* line 116 with the row term added instead of subtracted
pixel_to_point_adds_row(b, p, ul, lr) ==
    LET width  == FSub(lr.re, ul.re)
        height == FSub(ul.im, lr.im)
    IN  Complex(FAdd(ul.re, FDiv(FMul(FromUsize(p[1]), width), FromUsize(b[1]))),
                FAdd(ul.im, FDiv(FMul(FromUsize(p[2]), height), FromUsize(b[2]))))

\* lines 108-118; b and p are (column, row) pairs, b.0 is b[1]
pixel_to_point(b, p, ul, lr) ==
    LET width  == FSub(lr.re, ul.re)
        height == FSub(ul.im, lr.im)
    IN  Complex(FAdd(ul.re, FDiv(FMul(FromUsize(p[1]), width), FromUsize(b[1]))),
                FSub(ul.im, FDiv(FMul(FromUsize(p[2]), height), FromUsize(b[2]))))

InitPixel ==
    /\ fn = "pixel_to_point"
    /\ pc = "call"
    /\ result = Pending
    /\ bounds \in (0..MaxBound) \X (0..MaxBound)
    /\ pixel \in (0..MaxBound) \X (0..MaxBound)
    /\ upper_left \in {Complex(re, im) : re \in CornerRe, im \in CornerIm}
    /\ lower_right \in {Complex(re, im) : re \in CornerRe, im \in CornerIm}
    /\ EscapeIdle
    /\ ParseIdle

\* the call and its return
PixelToPoint ==
    /\ fn = "pixel_to_point"
    /\ pc = "call"
    /\ result' = pixel_to_point(bounds, pixel, upper_left, lower_right)
    /\ pc' = "done"
    /\ UNCHANGED <<fn, c, limit, z, i, updates, s, separator, T,
                   bounds, pixel, upper_left, lower_right>>

NextPixel ==
    PixelToPoint

SpecPixel ==
    InitPixel /\ [][NextPixel]_vars

---------------------------------------------------------------------------
(* pixel_to_point: the claims.                                             *)

FiniteCorners ==
    /\ IsFinite(upper_left.re) /\ IsFinite(upper_left.im)
    /\ IsFinite(lower_right.re) /\ IsFinite(lower_right.im)

\* the plane extents of line 108 are finite
FiniteExtents ==
    /\ IsFinite(FSub(lower_right.re, upper_left.re))
    /\ IsFinite(FSub(upper_left.im, lower_right.im))

\* the two formulas of the claim, each operation rounded as f64 rounds it
FormulaRe ==
    FAdd(upper_left.re,
         FDiv(FMul(FromUsize(pixel[1]), FSub(lower_right.re, upper_left.re)),
              FromUsize(bounds[1])))

FormulaIm ==
    FSub(upper_left.im,
         FDiv(FMul(FromUsize(pixel[2]), FSub(upper_left.im, lower_right.im)),
              FromUsize(bounds[2])))

OrderedCorners ==
    /\ FiniteCorners
    /\ FLt(upper_left.re, lower_right.re)
    /\ FGt(upper_left.im, lower_right.im)

PixelInBounds ==
    /\ 0 <= pixel[1] /\ pixel[1] < bounds[1]
    /\ 0 <= pixel[2] /\ pixel[2] < bounds[2]

\* C9: with ordered corners and a pixel in bounds the point lies in the
\* half-open rectangle, row 0 maps to exactly upper_left.im, the last row
\* maps strictly above lower_right.im, re strictly increases with the
\* column and im strictly decreases with the row.
C9_PointInHalfOpenRectangle ==
    fn = "pixel_to_point" /\ pc = "done"
            /\ OrderedCorners /\ PixelInBounds =>
        /\ FLe(upper_left.re, result.re) /\ FLt(result.re, lower_right.re)
        /\ FLt(lower_right.im, result.im) /\ FLe(result.im, upper_left.im)
        /\ pixel[2] = 0 => FEq(result.im, upper_left.im)
        /\ pixel[2] = bounds[2] - 1 => FGt(result.im, lower_right.im)
        /\ \A col \in (pixel[1] + 1)..(bounds[1] - 1) :
              FLt(result.re,
                  pixel_to_point(bounds, <<col, pixel[2]>>,
                                 upper_left, lower_right).re)
        /\ \A row \in (pixel[2] + 1)..(bounds[2] - 1) :
              FGt(result.im,
                  pixel_to_point(bounds, <<pixel[1], row>>,
                                 upper_left, lower_right).im)

---------------------------------------------------------------------------
(* Text: chars, UTF-8 and the str operations of lines 40 and 51.           *)

\* the code point of a character written as a one-character string
Ord(ch) ==
    CASE ch = " " -> 32  [] ch = "+" -> 43  [] ch = "," -> 44
      [] ch = "-" -> 45  [] ch = "." -> 46
      [] ch = "0" -> 48  [] ch = "1" -> 49  [] ch = "2" -> 50
      [] ch = "5" -> 53  [] ch = "6" -> 54
      [] ch = "E" -> 69  [] ch = "a" -> 97  [] ch = "e" -> 101
      [] ch = "f" -> 102 [] ch = "i" -> 105 [] ch = "n" -> 110
      [] ch = "t" -> 116
      [] ch = "x" -> 120 [] ch = "y" -> 121
      [] ch = "é" -> 233

\* the UTF-8 encoding of a code point below 2^16
Utf8(cp) ==
    CASE cp < 128 -> <<cp>>
      [] cp >= 128 /\ cp < 2048 ->
            <<192 + (cp \div 64), 128 + (cp % 64)>>
      [] OTHER ->
            <<224 + (cp \div 4096), 128 + ((cp \div 64) % 64), 128 + (cp % 64)>>

\* the bytes of a text given as its sequence of code points
RECURSIVE Encode(_)
Encode(cps) ==
    IF cps = << >> THEN << >> ELSE Utf8(Head(cps)) \o Encode(Tail(cps))

\* the &str written as a sequence of one-character strings
Txt(chs) ==
    Encode([j \in 1..Len(chs) |-> Ord(chs[j])])

\* str::is_char_boundary: offset 0, the length, or a byte that is not a
\* continuation byte (10xxxxxx)
is_char_boundary(str, idx) ==
    \/ idx = 0
    \/ idx = Len(str)
    \/ idx < Len(str) /\ ~(str[idx + 1] \in 128..191)

\* str::find(char): the byte offset of the first match of the char's
\* encoding, None when there is none
find(str, ch) ==
    LET pat == Utf8(ch)
        at  == {k \in 0..(Len(str) - Len(pat)) :
                    SubSeq(str, k + 1, k + Len(pat)) = pat}
    IN  IF at = {} THEN None ELSE Some(CHOOSE k \in at : \A j \in at : k <= j)

\* &str[..idx]: panics unless idx is a char boundary
SliceTo(str, idx) ==
    IF idx <= Len(str) /\ is_char_boundary(str, idx)
    THEN Some(SubSeq(str, 1, idx))
    ELSE Panic

\* &str[idx..]: panics unless idx is a char boundary
SliceFrom(str, idx) ==
    IF idx <= Len(str) /\ is_char_boundary(str, idx)
    THEN Some(SubSeq(str, idx + 1, Len(str)))
    ELSE Panic

---------------------------------------------------------------------------
(* FromStr for i32 and f64 (T::from_str of line 51).                       *)

Ok(v) ==
    [tag |-> "Ok", val |-> v]

Err ==
    [tag |-> "Err"]

IsDigit(b) ==
    b \in 48..57

Lower(b) ==
    IF b \in 65..90 THEN b + 32 ELSE b

\* i32: the digits are accumulated with the sign applied, each step checked
\* against i32::MIN = -2147483648 and i32::MAX = 2147483647
RECURSIVE I32Digits(_, _, _)
I32Digits(bs, acc, sg) ==
    IF bs = << >>
    THEN Ok(acc)
    ELSE LET d == Head(bs) - 48
             m == Abs(acc)
         IN  IF ~IsDigit(Head(bs))
             THEN Err
             ELSE IF \/ m > 214748364
                     \/ m = 214748364 /\ d > (IF sg < 0 THEN 8 ELSE 7)
                  THEN Err
                  ELSE I32Digits(Tail(bs), acc * 10 + sg * d, sg)

\* <i32 as FromStr>::from_str: an optional sign, then one digit or more
I32FromStr(bs) ==
    IF bs = << >>
    THEN Err
    ELSE LET signed == Head(bs) \in {43, 45}
             digits == IF signed THEN Tail(bs) ELSE bs
         IN  IF digits = << >>
             THEN Err
             ELSE I32Digits(digits, 0, IF Head(bs) = 45 THEN -1 ELSE 1)

\* the length of the run of digits of bs that starts at position from
RECURSIVE DigitRun(_, _)
DigitRun(bs, from) ==
    IF from <= Len(bs) /\ IsDigit(bs[from])
    THEN 1 + DigitRun(bs, from + 1)
    ELSE 0

\* the number written by the digits bs[from .. from + n - 1]
RECURSIVE DigitsValue(_, _, _)
DigitsValue(bs, from, n) ==
    IF n = 0
    THEN 0
    ELSE 10 * DigitsValue(bs, from, n - 1) + (bs[from + n - 1] - 48)

\* n * 10^e, or some number above cap once the product is above cap
RECURSIVE ScaleUp(_, _, _)
ScaleUp(n, e, cap) ==
    IF e = 0 \/ n > cap THEN n ELSE ScaleUp(10 * n, e - 1, cap)

\* the decimal m * 10^e (m >= 0), rounded to the nearest f64.  A product
\* past twice the largest finite value is infinite whatever follows, and a
\* divisor past twice the dividend gives zero whatever follows.
DecimalToF64(m, e) ==
    IF e >= 0
    THEN Round(ScaleUp(m * U, e, 2 * MaxFin), 1)
    ELSE Round(m * U, ScaleUp(1, -e, 2 * m * U))

\* <f64 as FromStr>::from_str: Sign? ('inf' | 'infinity' | 'nan' | Number),
\* Number ::= (Digit+ | Digit+ '.' Digit* | Digit* '.' Digit+) Exp?,
\* Exp ::= 'e' Sign? Digit+, letters in either case; nothing is trimmed.
\* (Digit strings of the model have fewer than ten digits.)
F64FromStr(bs) ==
    LET signed  == bs # << >> /\ Head(bs) \in {43, 45}
        sg      == IF signed /\ Head(bs) = 45 THEN -1 ELSE 1
        body    == IF signed THEN Tail(bs) ELSE bs
        low     == [j \in 1..Len(body) |-> Lower(body[j])]
        nInt    == DigitRun(body, 1)
        hasDot  == nInt + 1 <= Len(body) /\ body[nInt + 1] = 46
        fracAt  == nInt + 2
        nFrac   == IF hasDot THEN DigitRun(body, fracAt) ELSE 0
        expAt   == nInt + (IF hasDot THEN 1 ELSE 0) + nFrac + 1
        hasExp  == expAt <= Len(body) /\ low[expAt] = 101
        expSgn  == hasExp /\ expAt + 1 <= Len(body)
                          /\ body[expAt + 1] \in {43, 45}
        expNeg  == expSgn /\ body[expAt + 1] = 45
        expFrom == expAt + (IF expSgn THEN 2 ELSE 1)
        nExp    == IF hasExp THEN DigitRun(body, expFrom) ELSE 0
        endAt   == IF hasExp THEN expFrom + nExp ELSE expAt
        valid   == /\ nInt + nFrac >= 1
                   /\ hasExp => nExp >= 1
                   /\ endAt = Len(body) + 1
        mant    == DigitsValue(body, 1, nInt)
                       * Pow10(nFrac) + DigitsValue(body, fracAt, nFrac)
        ex      == (IF expNeg THEN -1 ELSE 1) * DigitsValue(body, expFrom, nExp)
                       - nFrac
        mag     == DecimalToF64(mant, ex)
    IN  CASE low = Txt(<<"i", "n", "f">>) -> Ok(Inf(sg))
          [] low = Txt(<<"i", "n", "f", "i", "n", "i", "t", "y">>) -> Ok(Inf(sg))
          [] low = Txt(<<"n", "a", "n">>) -> Ok(NaN)
          [] OTHER -> IF valid
                      THEN Ok(IF sg < 0 THEN FNeg(mag) ELSE mag)
                      ELSE Err

\* T::from_str for the two types the program parses
from_str(ty, bs) ==
    IF ty = "i32" THEN I32FromStr(bs) ELSE F64FromStr(bs)

---------------------------------------------------------------------------
(* parse_pair (lines 38-59) and parse_complex (lines 76-83).               *)

\* lines 40-58; the left slice and parse are evaluated before the right
\* ones, and a panic of either slice aborts the call
parse_pair(str, sep, ty) ==
    LET found == find(str, sep)
    IN  IF found = None
        THEN None
        ELSE LET index == found.val
                 left  == SliceTo(str, index)
                 right == SliceFrom(str, index + 1)
             IN  IF left = Panic \/ right = Panic
                 THEN Panic
                 ELSE LET l == from_str(ty, left.val)
                          r == from_str(ty, right.val)
                      IN  IF l.tag = "Ok" /\ r.tag = "Ok"
                          THEN Some(<<l.val, r.val>>)
                          ELSE None

\* line 80 with the two parts exchanged
parse_complex_swapped(str) ==
    LET p == parse_pair(str, Ord(","), "f64")
    IN  CASE p.tag = "Some" -> Some(Complex(p.val[2], p.val[1]))
          [] p.tag = "None" -> None
          [] OTHER -> Panic

\* lines 78-82
parse_complex(str) ==
    LET p == parse_pair(str, Ord(","), "f64")
    IN  CASE p.tag = "Some" -> Some(Complex(p.val[1], p.val[2]))
          [] p.tag = "None" -> None
          [] OTHER -> Panic

\* the characters texts are built from: two digits, a sign, a point, the
\* two separators of the tests and a character of two bytes
Alphabet ==
    {Ord("1"), Ord("2"), Ord("-"), Ord("."), Ord(","), Ord("x"), Ord("é")}

Separators ==
    {Ord(","), Ord("x"), Ord("é")}

\* the texts of the tests (lines 64-70, 88-89) and of the specification,
\* and three with an exponent, an infinity and a NaN
TestTexts ==
    { Txt(<< >>),
      Txt(<<"1", "0", ",">>),
      Txt(<<",", "1", "0">>),
      Txt(<<"1", "0", ",", "2", "0">>),
      Txt(<<"1", "0", ",", "2", "0", "x", "y">>),
      Txt(<<"0", ".", "5", "x">>),
      Txt(<<"0", ".", "5", "x", "1", ".", "5">>),
      Txt(<<"1", ".", "2", "5", ",", " ", "-", "0", ".", "0", "6", "2", "5">>),
      Txt(<<",", "-", "0", ".", "0", "6", "2", "5">>),
      Txt(<<"1", ".", "2", "5", ",", "-", "0", ".", "0", "6", "2", "5">>),
      Txt(<<"1", "e", "2", ",", "2", "E", "-", "1">>),
      Txt(<<"i", "n", "f", ",", "-", "i", "n", "f", "i", "n", "i", "t", "y">>),
      Txt(<<"n", "a", "n", ",", "1">>) }

\* a text whose right operand is past i32::MAX, for the calls with T = i32
OverflowTexts ==
    { Txt(<<"1", ",", "2", "1", "5", "0", "0", "0", "0", "0", "0", "0">>) }

Texts ==
    {Encode(cps) : cps \in UNION {[1..n -> Alphabet] : n \in 0..MaxLen}}
        \cup TestTexts

InitParse ==
    /\ pc = "call"
    /\ result = Pending
    /\ \/ /\ fn = "parse_pair"
          /\ separator \in Separators
          /\ T \in {"i32", "f64"}
       \/ /\ fn = "parse_complex"
          /\ separator = Ord(",")
          /\ T = "f64"
    /\ s \in (IF T = "i32" THEN Texts \cup OverflowTexts ELSE Texts)
    /\ EscapeIdle
    /\ PixelIdle

\* a call of parse_pair and its return, or its panic
ParsePair ==
    /\ fn = "parse_pair"
    /\ pc = "call"
    /\ result' = parse_pair(s, separator, T)
    /\ pc' = IF result'.tag = "Panic" THEN "panic" ELSE "done"
    /\ UNCHANGED <<fn, c, limit, z, i, updates, s, separator, T,
                   bounds, pixel, upper_left, lower_right>>

\* a call of parse_complex and its return, or its panic
ParseComplex ==
    /\ fn = "parse_complex"
    /\ pc = "call"
    /\ result' = parse_complex(s)
    /\ pc' = IF result'.tag = "Panic" THEN "panic" ELSE "done"
    /\ UNCHANGED <<fn, c, limit, z, i, updates, s, separator, T,
                   bounds, pixel, upper_left, lower_right>>

NextParse ==
    ParsePair \/ ParseComplex

SpecParse ==
    InitParse /\ [][NextParse]_vars

---------------------------------------------------------------------------
(* parse_pair and parse_complex: the claims.                               *)

\* the code points of a text
RECURSIVE Chars(_)
Chars(bs) ==
    IF bs = << >>
    THEN << >>
    ELSE LET b == Head(bs)
             n == IF b < 128 THEN 1 ELSE IF b < 224 THEN 2 ELSE 3
             cp == CASE n = 1 -> b
                     [] n = 2 -> (b - 192) * 64 + (bs[2] - 128)
                     [] n = 3 -> (b - 224) * 4096 + (bs[2] - 128) * 64
                                     + (bs[3] - 128)
         IN  <<cp>> \o Chars(SubSeq(bs, n + 1, Len(bs)))

\* the positions of the separator among the characters of the text
SepAt(str, sep) ==
    {k \in 1..Len(Chars(str)) : Chars(str)[k] = sep}

FirstSep(str, sep) ==
    CHOOSE k \in SepAt(str, sep) : \A j \in SepAt(str, sep) : k <= j

\* the operands: the characters before the first separator, and all of
\* those after it
LeftOperand(str, sep) ==
    Encode(SubSeq(Chars(str), 1, FirstSep(str, sep) - 1))

RightOperand(str, sep) ==
    Encode(SubSeq(Chars(str), FirstSep(str, sep) + 1, Len(Chars(str))))

\* the reference result of C1
RefParsePair(str, sep, ty) ==
    IF SepAt(str, sep) = {}
    THEN None
    ELSE LET l == from_str(ty, LeftOperand(str, sep))
             r == from_str(ty, RightOperand(str, sep))
         IN  IF l.tag = "Ok" /\ r.tag = "Ok"
             THEN Some(<<l.val, r.val>>)
             ELSE None

\* C1: for every text and separator parse_pair returns the reference
\* result: None without a separator, otherwise the pair of the parses of
\* the text before the first separator and of all the text after it, in
\* that order, and None when either parse fails.
C1_ParsePairIsReference ==
    fn = "parse_pair" /\ pc # "call" =>
        result = RefParsePair(s, separator, T)

\* a character that occurs in no literal of the type
NonNumeric(ty, ch) ==
    IF ty = "i32"
    THEN ~(IsDigit(ch) \/ ch \in {43, 45})
    ELSE ~(IsDigit(ch)
            \/ Lower(ch) \in {43, 45, 46, Ord("e"), Ord("i"), Ord("n"),
                              Ord("f"), Ord("t"), Ord("y"), Ord("a")})

\* the right operand is a valid number followed by characters that are
\* all non-numeric
TrailingGarbage(str, sep, ty) ==
    /\ SepAt(str, sep) # {}
    /\ LET right == Chars(RightOperand(str, sep))
       IN  \E n \in 1..(Len(right) - 1) :
              /\ from_str(ty, Encode(SubSeq(right, 1, n))).tag = "Ok"
              /\ \A j \in (n + 1)..Len(right) : NonNumeric(ty, right[j])

\* the malformed shapes of C2
Malformed(str, sep, ty) ==
    \/ str = << >>
    \/ SepAt(str, sep) = {}
    \/ FirstSep(str, sep) = 1
    \/ FirstSep(str, sep) = Len(Chars(str))
    \/ TrailingGarbage(str, sep, ty)

\* C2: parse_pair returns None for the empty text, a text without
\* separator, a separator at position 0, a separator as last character,
\* and a right operand that is a number followed by non-numeric
\* characters.
C2_MalformedYieldsNone ==
    fn = "parse_pair" /\ pc # "call" /\ Malformed(s, separator, T) =>
        result = None

\* C3: parse_complex(s) is Some(Complex{re: l, im: r}) exactly when
\* parse_pair::<f64>(s, ',') is Some((l, r)), and None exactly when that
\* call is None.
C3_ParseComplexIsParsePair ==
    fn = "parse_complex" /\ pc # "call" =>
        LET p == parse_pair(s, Ord(","), "f64")
        IN  /\ pc = "done"
            /\ p.tag \in {"Some", "None"}
            /\ result.tag = p.tag
            /\ p.tag = "Some" =>
                  result.val.re = p.val[1] /\ result.val.im = p.val[2]
            /\ result = None <=> p = None

\* parse_complex returned a number whose two parts differ
C3_Witness ==
    /\ fn = "parse_complex" /\ pc = "done"
    /\ result.tag = "Some"
    /\ result.val.re # result.val.im
    /\ result.val = Complex(from_str("f64", LeftOperand(s, Ord(","))).val,
                            from_str("f64", RightOperand(s, Ord(","))).val)

\* C4: parse_complex("1.25, -0.0625") is Some(Complex{re: 1.25,
\* im: -0.0625}) and parse_complex(",-0.0625") is None.
C4_SpaceAfterCommaAccepted ==
    fn = "parse_complex" /\ pc # "call" =>
        /\ s = Txt(<<"1", ".", "2", "5", ",", " ",
                     "-", "0", ".", "0", "6", "2", "5">>) =>
              result = Some(Complex(Fin((5 * U) \div 4), Fin(-(U \div 16))))
        /\ s = Txt(<<",", "-", "0", ".", "0", "6", "2", "5">>) =>
              result = None

\* C10: parse_pair is total: every call ends in Some((l, r)) or None and
\* none aborts, whatever the text and the separator.
C10_ParsePairNeverAborts ==
    fn = "parse_pair" =>
        /\ pc # "panic"
        /\ pc # "call" => result.tag \in {"Some", "None"}

===========================================================================
